---- MODULE Spec2Model ----
(***************************************************************************)
(* Model of the unwrap-log crate (src/src/lib.rs): nine non-panicking      *)
(* unwrap operations on Option<T> and Result<T, E> that submit one warn    *)
(* record to the `log` facade on the None / Err branch and return a        *)
(* substitute value.                                                       *)
(*                                                                         *)
(* Text is modelled as sequences of one-character strings, so that         *)
(* formatting, concatenation and substring containment are computed.       *)
(***************************************************************************)
EXTENDS Integers, Sequences, FiniteSets, TLC

VARIABLES log, calls

vars == <<log, calls>>

\* Number of calls a behaviour performs.
MaxCalls == 2

----------------------------------------------------------------------------
\* Values: payload type T and reason type E range over i32 and &str values.

IntVal(n) == [ty |-> "i32", n |-> n, s |-> <<>>]

StrVal(s) == [ty |-> "str", n |-> 0, s |-> s]

Oops == <<"o", "o", "p", "s">>

Values(ty) ==
    IF ty = "i32" THEN {IntVal(0), IntVal(7)}
    ELSE {StrVal(<<>>), StrVal(<<"h", "i">>)}

Reasons == {StrVal(Oops), IntVal(5)}

\* T::default()
Default(ty) == IF ty = "i32" THEN IntVal(0) ELSE StrVal(<<>>)

\* The payloads drawn for Some(v) / Ok(v): values other than the default.
Payloads(ty) == Values(ty) \ {Default(ty)}

Some(v) == [tag |-> "Some", val |-> v, err |-> IntVal(0)]

None(ty) == [tag |-> "None", val |-> Default(ty), err |-> IntVal(0)]

Ok(v) == [tag |-> "Ok", val |-> v, err |-> IntVal(0)]

Err(ty, e) == [tag |-> "Err", val |-> Default(ty), err |-> e]

Options(ty) == {Some(v) : v \in Payloads(ty)} \cup {None(ty)}

Results(ty) == {Ok(v) : v \in Payloads(ty)} \cup {Err(ty, e) : e \in Reasons}

\* core::panic::Location
Location(file, line, col) == [file |-> file, line |-> line, col |-> col]

\* Call sites of the user crate: each is one expression, at one location,
\* instantiated at one payload type T.
CallSites ==
    { [loc |-> Location(<<"a", ".", "r", "s">>, 8, 23), ty |-> "i32"],
      [loc |-> Location(<<"a", ".", "r", "s">>, 11, 30), ty |-> "str"] }

----------------------------------------------------------------------------
\* Formatting.

\* The grave accent character (U+0060), which quotes `None` and `Err(..)` in
\* the messages; the TLA+ lexer accepts no grave accent inside a string.
Grave == "GRAVE"

DigitChar(d) == <<"0", "1", "2", "3", "4", "5", "6", "7", "8", "9">>[d + 1]

RECURSIVE Digits(_)
Digits(n) == IF n < 10 THEN <<DigitChar(n)>>
             ELSE Digits(n \div 10) \o <<DigitChar(n % 10)>>

\* {caller}: Display of a Location is file:line:col
DisplayLocation(loc) ==
    loc.file \o <<":">> \o Digits(loc.line) \o <<":">> \o Digits(loc.col)

\* {err:?}: Debug of an integer is its digits, of a str its text in quotes
DebugFmt(e) ==
    IF e.ty = "i32" THEN Digits(e.n) ELSE <<"\"">> \o e.s \o <<"\"">>

Contains(text, sub) ==
    \E i \in 0..(Len(text) - Len(sub)) :
        \A k \in 1..Len(sub) : text[i + k] = sub[k]

IsPrefix(pre, text) ==
    /\ Len(pre) <= Len(text)
    /\ \A k \in 1..Len(pre) : text[k] = pre[k]

----------------------------------------------------------------------------
\* Events a call performs, in program order.

MatchEvent == [kind |-> "match", level |-> "", msg |-> <<>>]

DefaultEvent == [kind |-> "default", level |-> "", msg |-> <<>>]

SupplierEvent == [kind |-> "supplier", level |-> "", msg |-> <<>>]

\* log::warn!(...)
Warn(msg) == [kind |-> "log", level |-> "Warn", msg |-> msg]

\* Variant: the location is taken inside the library (no #[track_caller]).
option_error_untracked(caller) ==
    <<Warn(DisplayLocation(Location(<<"l", "i", "b", ".", "r", "s">>, 73, 13))
           \o <<" ", "e", "n", "c", "o", "u", "n", "t", "e", "r", "e", "d",
                " ", Grave, "N", "o", "n", "e", Grave>>)>>

option_error(caller) ==
    <<Warn(DisplayLocation(caller)
           \o <<" ", "e", "n", "c", "o", "u", "n", "t", "e", "r", "e", "d",
                " ", Grave, "N", "o", "n", "e", Grave>>)>>

\* Variant: the reason is not formatted into the message.
result_error_hidden(err, caller) ==
    <<Warn(DisplayLocation(caller)
           \o <<" ", "e", "n", "c", "o", "u", "n", "t", "e", "r", "e", "d",
                " ", Grave, "E", "r", "r", "(", "_", ")", Grave>>)>>

result_error(err, caller) ==
    <<Warn(DisplayLocation(caller)
           \o <<" ", "e", "n", "c", "o", "u", "n", "t", "e", "r", "e", "d",
                " ", Grave, "E", "r", "r", "(">>
           \o DebugFmt(err)
           \o <<")", Grave>>)>>

\* Variant: the message carries a running number of the records so far.
no_dbg_error_counting(caller) ==
    <<Warn(DisplayLocation(caller)
           \o <<" ", "e", "n", "c", "o", "u", "n", "t", "e", "r", "e", "d",
                " ", Grave, "E", "r", "r", "(", "_", ")", Grave, " ", "#">>
           \o Digits(Len(log)))>>

no_dbg_error(caller) ==
    <<Warn(DisplayLocation(caller)
           \o <<" ", "e", "n", "c", "o", "u", "n", "t", "e", "r", "e", "d",
                " ", Grave, "E", "r", "r", "(", "_", ")", Grave>>)>>

\* A completed call: the value handed back and the events performed.
Returned(x, events) == [outcome |-> "returned", result |-> x, events |-> events]

----------------------------------------------------------------------------
\* impl<T: Default> OptionExt for Option<T>

\* Variant: plain unwrap, which panics on None.
OptionExt_unwrap_or_default_log_unwrap(self, ty, caller) ==
    IF self.tag = "Some"
    THEN Returned(self.val, <<MatchEvent>>)
    ELSE [outcome |-> "panicked", result |-> Default(ty),
          events |-> <<MatchEvent>>]

OptionExt_unwrap_or_default_log(self, ty, caller) ==
    IF self.tag = "Some"
    THEN Returned(self.val, <<MatchEvent>>)
    ELSE Returned(Default(ty),
                  <<MatchEvent>> \o option_error(caller) \o <<DefaultEvent>>)

\* Variant: the supplier is evaluated eagerly, before the branch.
OptionExt_unwrap_or_else_log_eager(self, f, caller) ==
    IF self.tag = "Some"
    THEN Returned(self.val, <<SupplierEvent, MatchEvent>>)
    ELSE Returned(f, <<SupplierEvent, MatchEvent>> \o option_error(caller))

OptionExt_unwrap_or_else_log(self, f, caller) ==
    IF self.tag = "Some"
    THEN Returned(self.val, <<MatchEvent>>)
    ELSE Returned(f, <<MatchEvent>> \o option_error(caller) \o <<SupplierEvent>>)

\* Variant: the branches are swapped.
OptionExt_unwrap_or_log_swapped(self, default, caller) ==
    IF self.tag = "Some"
    THEN Returned(default, <<MatchEvent>>)
    ELSE Returned(self.val, <<MatchEvent>> \o option_error(caller))

OptionExt_unwrap_or_log(self, default, caller) ==
    IF self.tag = "Some"
    THEN Returned(self.val, <<MatchEvent>>)
    ELSE Returned(default, <<MatchEvent>> \o option_error(caller))

\* impl<T: Default, E: Debug> ResultExt for Result<T, E>

\* Variant: the record is submitted before the match, on both branches.
ResultExt_unwrap_or_default_log_logs_always(self, ty, caller) ==
    IF self.tag = "Ok"
    THEN Returned(self.val, result_error(self.err, caller) \o <<MatchEvent>>)
    ELSE Returned(Default(ty),
                  <<MatchEvent>> \o result_error(self.err, caller)
                                \o <<DefaultEvent>>)

ResultExt_unwrap_or_default_log(self, ty, caller) ==
    IF self.tag = "Ok"
    THEN Returned(self.val, <<MatchEvent>>)
    ELSE Returned(Default(ty),
                  <<MatchEvent>> \o result_error(self.err, caller)
                                \o <<DefaultEvent>>)

\* Variant: the supplier runs before the record is submitted.
ResultExt_unwrap_or_else_log_supplier_first(self, f, caller) ==
    IF self.tag = "Ok"
    THEN Returned(self.val, <<MatchEvent>>)
    ELSE Returned(f, <<MatchEvent, SupplierEvent>>
                     \o result_error(self.err, caller))

ResultExt_unwrap_or_else_log(self, f, caller) ==
    IF self.tag = "Ok"
    THEN Returned(self.val, <<MatchEvent>>)
    ELSE Returned(f, <<MatchEvent>> \o result_error(self.err, caller)
                                   \o <<SupplierEvent>>)

ResultExt_unwrap_or_log(self, default, caller) ==
    IF self.tag = "Ok"
    THEN Returned(self.val, <<MatchEvent>>)
    ELSE Returned(default, <<MatchEvent>> \o result_error(self.err, caller))

\* impl<T: Default, E> ResultExtNoDbg for Result<T, E>

\* Variant: the Err branch formats the reason, as ResultExt does.
ResultExtNoDbg_unwrap_or_default_log_with_detail(self, ty, caller) ==
    IF self.tag = "Ok"
    THEN Returned(self.val, <<MatchEvent>>)
    ELSE Returned(Default(ty),
                  <<MatchEvent>> \o result_error(self.err, caller)
                                \o <<DefaultEvent>>)

ResultExtNoDbg_unwrap_or_default_log(self, ty, caller) ==
    IF self.tag = "Ok"
    THEN Returned(self.val, <<MatchEvent>>)
    ELSE Returned(Default(ty),
                  <<MatchEvent>> \o no_dbg_error(caller) \o <<DefaultEvent>>)

ResultExtNoDbg_unwrap_or_else_log(self, f, caller) ==
    IF self.tag = "Ok"
    THEN Returned(self.val, <<MatchEvent>>)
    ELSE Returned(f, <<MatchEvent>> \o no_dbg_error(caller) \o <<SupplierEvent>>)

\* Variant: the Err branch returns T::default() instead of the argument.
ResultExtNoDbg_unwrap_or_log_type_default(self, default, caller) ==
    IF self.tag = "Ok"
    THEN Returned(self.val, <<MatchEvent>>)
    ELSE Returned(Default(default.ty), <<MatchEvent>> \o no_dbg_error(caller))

ResultExtNoDbg_unwrap_or_log(self, default, caller) ==
    IF self.tag = "Ok"
    THEN Returned(self.val, <<MatchEvent>>)
    ELSE Returned(default, <<MatchEvent>> \o no_dbg_error(caller))

----------------------------------------------------------------------------
\* State: the records submitted to the log facade, and the calls made so far.

LogRecords(events) == SelectSeq(events, LAMBDA ev : ev.kind = "log")

\* One call from the user crate: run the operation, submit its records.
Call(trait, op, ty, self, arg, caller, r) ==
    /\ Len(calls) < MaxCalls
    /\ log' = log \o LogRecords(r.events)
    /\ calls' = Append(calls,
                       [trait |-> trait, op |-> op, ty |-> ty, self |-> self,
                        arg |-> arg, caller |-> caller,
                        outcome |-> r.outcome, result |-> r.result,
                        events |-> r.events])

Init ==
    /\ log = <<>>
    /\ calls = <<>>

OptionDefault ==
    \E site \in CallSites : LET ty == site.ty  caller == site.loc IN \E self \in Options(ty) :
        Call("OptionExt", "unwrap_or_default_log", ty, self, Default(ty), caller,
             OptionExt_unwrap_or_default_log(self, ty, caller))

OptionElse ==
    \E site \in CallSites : LET ty == site.ty  caller == site.loc IN
        \E self \in Options(ty), f \in Values(ty) :
            Call("OptionExt", "unwrap_or_else_log", ty, self, f, caller,
                 OptionExt_unwrap_or_else_log(self, f, caller))

OptionOr ==
    \E site \in CallSites : LET ty == site.ty  caller == site.loc IN
        \E self \in Options(ty), default \in Values(ty) :
            Call("OptionExt", "unwrap_or_log", ty, self, default, caller,
                 OptionExt_unwrap_or_log(self, default, caller))

ResultDefault ==
    \E site \in CallSites : LET ty == site.ty  caller == site.loc IN \E self \in Results(ty) :
        Call("ResultExt", "unwrap_or_default_log", ty, self, Default(ty), caller,
             ResultExt_unwrap_or_default_log(self, ty, caller))

ResultElse ==
    \E site \in CallSites : LET ty == site.ty  caller == site.loc IN
        \E self \in Results(ty), f \in Values(ty) :
            Call("ResultExt", "unwrap_or_else_log", ty, self, f, caller,
                 ResultExt_unwrap_or_else_log(self, f, caller))

ResultOr ==
    \E site \in CallSites : LET ty == site.ty  caller == site.loc IN
        \E self \in Results(ty), default \in Values(ty) :
            Call("ResultExt", "unwrap_or_log", ty, self, default, caller,
                 ResultExt_unwrap_or_log(self, default, caller))

NoDbgDefault ==
    \E site \in CallSites : LET ty == site.ty  caller == site.loc IN \E self \in Results(ty) :
        Call("ResultExtNoDbg", "unwrap_or_default_log", ty, self, Default(ty),
             caller, ResultExtNoDbg_unwrap_or_default_log(self, ty, caller))

NoDbgElse ==
    \E site \in CallSites : LET ty == site.ty  caller == site.loc IN
        \E self \in Results(ty), f \in Values(ty) :
            Call("ResultExtNoDbg", "unwrap_or_else_log", ty, self, f, caller,
                 ResultExtNoDbg_unwrap_or_else_log(self, f, caller))

NoDbgOr ==
    \E site \in CallSites : LET ty == site.ty  caller == site.loc IN
        \E self \in Results(ty), default \in Values(ty) :
            Call("ResultExtNoDbg", "unwrap_or_log", ty, self, default, caller,
                 ResultExtNoDbg_unwrap_or_log(self, default, caller))

Next ==
    \/ OptionDefault
    \/ OptionElse
    \/ OptionOr
    \/ ResultDefault
    \/ ResultElse
    \/ ResultOr
    \/ NoDbgDefault
    \/ NoDbgElse
    \/ NoDbgOr

Spec == Init /\ [][Next]_vars

----------------------------------------------------------------------------
\* Properties.

CallIds == 1..Len(calls)

Present(c) == c.self.tag \in {"Some", "Ok"}

Absent(c) == c.self.tag \in {"None", "Err"}

Count(events, kind) == Len(SelectSeq(events, LAMBDA ev : ev.kind = kind))

Positions(events, kinds) == {k \in 1..Len(events) : events[k].kind \in kinds}

\* The message of the record a call on None / Err submitted.
Message(c) == LogRecords(c.events)[1].msg

SameCall(c, d) ==
    /\ c.trait = d.trait
    /\ c.op = d.op
    /\ c.ty = d.ty
    /\ c.self = d.self
    /\ c.arg = d.arg
    /\ c.caller = d.caller

\* C1: on Some(v) / Ok(v) each of the nine operations returns exactly v,
\* whatever supplier or explicit default was passed.
C1_ReturnsContainedValue ==
    \A i \in CallIds :
        Present(calls[i]) =>
            /\ calls[i].outcome = "returned"
            /\ calls[i].result = calls[i].self.val

C1_Witness ==
    /\ \E i \in CallIds :
        /\ calls[i].self.tag = "Some"
        /\ calls[i].op = "unwrap_or_log"
        /\ calls[i].arg # calls[i].self.val
        /\ calls[i].self.val # Default(calls[i].ty)
    /\ \E i \in CallIds :
        /\ calls[i].self.tag = "Ok"
        /\ calls[i].op = "unwrap_or_else_log"
        /\ calls[i].arg # calls[i].self.val

\* C2: a call submits exactly one record, at warn level and starting with the
\* call-site location, when its input is None / Err, and no record when it is
\* Some / Ok; the log holds as many records as there were None / Err calls.
C2_OneWarnPerFailure ==
    /\ \A i \in CallIds :
        /\ Present(calls[i]) => Count(calls[i].events, "log") = 0
        /\ Absent(calls[i]) =>
            /\ Count(calls[i].events, "log") = 1
            /\ LogRecords(calls[i].events)[1].level = "Warn"
            /\ IsPrefix(DisplayLocation(calls[i].caller) \o <<" ">>,
                        Message(calls[i]))
    /\ Len(log) = Cardinality({i \in CallIds : Absent(calls[i])})
    /\ \A k \in 1..Len(log) : log[k].level = "Warn"

C2_Witness ==
    /\ Len(calls) = 2
    /\ Len(log) = 1
    /\ Present(calls[1])
    /\ Absent(calls[2])
    /\ log[1] = LogRecords(calls[2].events)[1]

\* C3: on None / Err the returned value is the substitute of the chosen
\* strategy: the default of the payload type (0, the empty string), the
\* supplier's value, or the explicit value; it never depends on the reason.
C3_SubstituteByStrategy ==
    /\ \A i \in CallIds :
        Absent(calls[i]) =>
            /\ calls[i].op = "unwrap_or_default_log" =>
                /\ calls[i].ty = "i32" => calls[i].result = IntVal(0)
                /\ calls[i].ty = "str" => calls[i].result = StrVal(<<>>)
            /\ calls[i].op \in {"unwrap_or_else_log", "unwrap_or_log"} =>
                calls[i].result = calls[i].arg
    /\ \A i, j \in CallIds :
        /\ calls[i].self.tag = "Err"
        /\ calls[j].self.tag = "Err"
        /\ calls[i].op = calls[j].op
        /\ calls[i].ty = calls[j].ty
        /\ calls[i].arg = calls[j].arg
        => calls[i].result = calls[j].result

C3_Witness ==
    /\ \E i \in CallIds :
        /\ calls[i].self.tag = "Err"
        /\ calls[i].op = "unwrap_or_default_log"
        /\ calls[i].ty = "str"
        /\ calls[i].result = StrVal(<<>>)
    /\ \E i \in CallIds :
        /\ Absent(calls[i])
        /\ calls[i].op = "unwrap_or_log"
        /\ calls[i].arg # Default(calls[i].ty)
        /\ calls[i].result = calls[i].arg

\* C4: unwrap_or_else_log invokes the supplier exactly once on None / Err and
\* returns its value, and never invokes it on Some / Ok.
C4_SupplierInvokedLazilyOnce ==
    \A i \in CallIds :
        calls[i].op = "unwrap_or_else_log" =>
            /\ Present(calls[i]) => Count(calls[i].events, "supplier") = 0
            /\ Absent(calls[i]) =>
                /\ Count(calls[i].events, "supplier") = 1
                /\ calls[i].result = calls[i].arg

C4_Witness ==
    /\ \E i \in CallIds :
        /\ calls[i].op = "unwrap_or_else_log"
        /\ Present(calls[i])
    /\ \E i \in CallIds :
        /\ calls[i].op = "unwrap_or_else_log"
        /\ Absent(calls[i])
        /\ Count(calls[i].events, "supplier") = 1

\* C5: under ResultExtNoDbg two calls from the same call site on Err(e1) and
\* Err(e2) submit identical messages, and the message for a string reason
\* such as "oops" contains neither the reason nor its Debug rendering.
C5_NoDbgHidesReason ==
    /\ \A i, j \in CallIds :
        /\ calls[i].trait = "ResultExtNoDbg"
        /\ calls[j].trait = "ResultExtNoDbg"
        /\ calls[i].self.tag = "Err"
        /\ calls[j].self.tag = "Err"
        /\ calls[i].caller = calls[j].caller
        => LogRecords(calls[i].events) = LogRecords(calls[j].events)
    /\ \A i \in CallIds :
        /\ calls[i].trait = "ResultExtNoDbg"
        /\ calls[i].self.tag = "Err"
        /\ calls[i].self.err.ty = "str"
        => /\ ~Contains(Message(calls[i]), calls[i].self.err.s)
           /\ ~Contains(Message(calls[i]), DebugFmt(calls[i].self.err))

C5_Witness ==
    \E i, j \in CallIds :
        /\ calls[i].trait = "ResultExtNoDbg"
        /\ calls[j].trait = "ResultExtNoDbg"
        /\ calls[i].self.tag = "Err"
        /\ calls[j].self.tag = "Err"
        /\ calls[i].caller = calls[j].caller
        /\ calls[i].self.err = StrVal(Oops)
        /\ calls[j].self.err # calls[i].self.err
        /\ Len(log) = 2

\* C6: under ResultExt every call on Err(e) submits a message that contains
\* the Debug rendering of e, so reasons with distinct renderings give
\* distinct messages from one call site.
C6_DetailShowsReason ==
    /\ \A i \in CallIds :
        /\ calls[i].trait = "ResultExt"
        /\ calls[i].self.tag = "Err"
        => /\ Contains(Message(calls[i]), DebugFmt(calls[i].self.err))
           /\ calls[i].self.err.ty = "str" =>
                Contains(Message(calls[i]), calls[i].self.err.s)
    /\ \A i, j \in CallIds :
        /\ calls[i].trait = "ResultExt"
        /\ calls[j].trait = "ResultExt"
        /\ calls[i].self.tag = "Err"
        /\ calls[j].self.tag = "Err"
        /\ calls[i].caller = calls[j].caller
        /\ DebugFmt(calls[i].self.err) # DebugFmt(calls[j].self.err)
        => Message(calls[i]) # Message(calls[j])

C6_Witness ==
    \E i, j \in CallIds :
        /\ calls[i].trait = "ResultExt"
        /\ calls[j].trait = "ResultExt"
        /\ calls[i].self.tag = "Err"
        /\ calls[j].self.tag = "Err"
        /\ calls[i].caller = calls[j].caller
        /\ calls[i].op # calls[j].op
        /\ calls[i].self.err = StrVal(Oops)
        /\ calls[j].self.err = IntVal(5)
        /\ Contains(Message(calls[i]), Oops)

AbsentValueText ==
    <<" ", "e", "n", "c", "o", "u", "n", "t", "e", "r", "e", "d", " ", "a",
      "b", "s", "e", "n", "t", " ", "v", "a", "l", "u", "e">>

FailureColonText ==
    <<" ", "e", "n", "c", "o", "u", "n", "t", "e", "r", "e", "d", " ", "f",
      "a", "i", "l", "u", "r", "e", ":", " ">>

AFailureText ==
    <<" ", "e", "n", "c", "o", "u", "n", "t", "e", "r", "e", "d", " ", "a",
      " ", "f", "a", "i", "l", "u", "r", "e">>

NoneText ==
    <<" ", "e", "n", "c", "o", "u", "n", "t", "e", "r", "e", "d", " ",
      Grave, "N", "o", "n", "e", Grave>>

ErrOpenText ==
    <<" ", "e", "n", "c", "o", "u", "n", "t", "e", "r", "e", "d", " ",
      Grave, "E", "r", "r", "(">>

ErrCloseText ==
    <<")", Grave>>

ErrHiddenText ==
    <<" ", "e", "n", "c", "o", "u", "n", "t", "e", "r", "e", "d", " ",
      Grave, "E", "r", "r", "(", "_", ")", Grave>>

\* The text a call on None / Err is expected to submit, given the three
\* fixed parts of the message format.
ExpectedMessage(c, absentText, failureOpen, failureClose, hiddenText) ==
    DisplayLocation(c.caller) \o
        (IF c.trait = "OptionExt" THEN absentText
         ELSE IF c.trait = "ResultExt"
              THEN failureOpen \o DebugFmt(c.self.err) \o failureClose
         ELSE hiddenText)

\* C7 as stated: the messages are "<location> encountered absent value",
\* "<location> encountered failure: <rendered reason>" and
\* "<location> encountered a failure".
C7_MessageTextAsStated ==
    \A i \in CallIds :
        Absent(calls[i]) =>
            Message(calls[i]) =
                ExpectedMessage(calls[i], AbsentValueText, FailureColonText,
                                <<>>, AFailureText)

\* C7 amended: the messages are "<location> encountered `None`",
\* "<location> encountered `Err(<Debug rendering of the reason>)`" and
\* "<location> encountered `Err(_)`", <location> being file:line:col of the
\* call site.
C7_MessageText ==
    \A i \in CallIds :
        Absent(calls[i]) =>
            Message(calls[i]) =
                ExpectedMessage(calls[i], NoneText, ErrOpenText, ErrCloseText,
                                ErrHiddenText)

C7_Witness ==
    /\ Len(log) = 2
    /\ \E i \in CallIds :
        /\ calls[i].trait = "OptionExt"
        /\ calls[i].self.tag = "None"
        /\ calls[i].caller.line = 8
    /\ \E i \in CallIds :
        /\ calls[i].trait = "ResultExt"
        /\ calls[i].self.tag = "Err"
        /\ calls[i].caller.line = 11

\* C8: every call returns a value of the payload type and never panics, on
\* the Some / Ok path and on the None / Err path alike.
C8_AlwaysReturnsValue ==
    \A i \in CallIds :
        /\ calls[i].outcome = "returned"
        /\ calls[i].result \in Values(calls[i].ty)

C8_Witness ==
    /\ \E i \in CallIds :
        /\ calls[i].self.tag = "None"
        /\ calls[i].outcome = "returned"
    /\ \E i \in CallIds :
        /\ calls[i].self.tag = "Err"
        /\ calls[i].outcome = "returned"

C10_LogBeforeSubstitute ==
    \A i \in CallIds :
        Absent(calls[i]) =>
            LET ev == calls[i].events IN
            /\ ev[1].kind = "match"
            /\ \A a \in Positions(ev, {"log"}) :
                \A b \in Positions(ev, {"supplier", "default"}) : a < b
            /\ calls[i].op = "unwrap_or_else_log" =>
                Positions(ev, {"supplier"}) # {}
            /\ calls[i].op = "unwrap_or_default_log" =>
                Positions(ev, {"default"}) # {}

C10_Witness ==
    /\ \E i \in CallIds :
        /\ Absent(calls[i])
        /\ calls[i].op = "unwrap_or_else_log"
        /\ Positions(calls[i].events, {"log"}) = {2}
        /\ Positions(calls[i].events, {"supplier"}) = {3}
    /\ \E i \in CallIds :
        /\ Absent(calls[i])
        /\ calls[i].op = "unwrap_or_default_log"
        /\ Positions(calls[i].events, {"default"}) = {3}

====
